---- MODULE Spec2Model ----
(***************************************************************************)
(* Model of the Four-Dot Rectifier (src/app.py): the corner orderer, the   *)
(* homography rectifier, the axis aligner, the two HTTP handlers that call *)
(* them, and the event handlers of the page that posts to the handlers.    *)
(*                                                                         *)
(* Numbers.  Pixel coordinates and millimetres are integers.  Angles are   *)
(* fixed-point degrees, Unit units per degree, so that the normalisation   *)
(* arithmetic of _align_image_by_edge is computed as the code computes it. *)
(* px_per_mm is kept as the exact fraction behind the float.               *)
(*                                                                         *)
(* The page.  Its state is the script's globals and the DOM properties the *)
(* handlers read back: the disabled flag of the two post buttons, the      *)
(* content of rectifyResult and the visibility of step 2.  Zoom, pan,      *)
(* marker elements and texts are written by the handlers and never read by *)
(* them; they are left out.  Every `await` is a point where other events   *)
(* run, so a POST and the handling of its response are two actions.        *)
(***************************************************************************)
EXTENDS Integers, Sequences, FiniteSets, Bags, TLC

VARIABLES
    tieBreak,   \* how this build's np.argsort orders equal keys
    pc,         \* "idle": waiting for a call, "done": a call has returned
    call,       \* the operation last called and its arguments
    ret,        \* what that call returned or raised
    fileChosen,             \* fileInput holds a file
    widthField,             \* the value of the form's width_mm input
    imgLoading,             \* img.src is set and img.onload has not run yet
    naturalW,               \* 0 until the first picture has loaded
    points,                 \* the corner points picked in step 1
    submitBtnDisabled,      \* submitBtn.disabled
    rectifyResult,          \* "empty", "image" (with startAlignBtn) or "error"
    rectifiedImageBlob,     \* the blob of the last rectified image, or NoBlob
    step2Hidden,            \* step2 has the class `hidden`
    alignImgLoading,        \* the blob alignImg.src points to while it loads
    alignImg,               \* the blob drawn in the step-2 canvas, or NoBlob
    alignPoints,            \* the edge points picked in step 2
    applyAlignBtnDisabled,  \* applyAlignBtn.disabled
    rectifyInFlight,        \* bag of the requests to /rectify awaiting an answer
    alignInFlight,          \* bag of the requests to /align awaiting an answer
    posted                  \* how many requests to /rectify were posted

apiVars == <<tieBreak, pc, call, ret>>

uiVars == <<fileChosen, widthField, imgLoading, naturalW, points, submitBtnDisabled,
            rectifyResult, rectifiedImageBlob, step2Hidden, alignImgLoading, alignImg,
            alignPoints, applyAlignBtnDisabled, rectifyInFlight, alignInFlight, posted>>

vars == <<tieBreak, pc, call, ret, fileChosen, widthField, imgLoading, naturalW, points,
          submitBtnDisabled, rectifyResult, rectifiedImageBlob, step2Hidden,
          alignImgLoading, alignImg, alignPoints, applyAlignBtnDisabled, rectifyInFlight, alignInFlight,
          posted>>

----------------------------------------------------------------------------
(* Bounds of the model *)

\* corner points of order_corners are drawn from (0..GridMax) x (0..GridMax)
GridMax == 2

\* corner points of rectify are drawn from the line (0..LineMax) x {0} and
\* the two points (0, 1) and (1, 1) off it
LineMax == 2

\* edge endpoints of align are drawn from (0..EdgeMax) x (0..EdgeMax)
EdgeMax == 4

\* the page posts at most MaxRequests requests to /rectify
MaxRequests == 2

\* the page has at most MaxAlignInFlight requests to /align in flight
MaxAlignInFlight == 1

----------------------------------------------------------------------------
(* Arithmetic helpers *)

Abs(v) == IF v < 0 THEN -v ELSE v

\* a local of the code: v is computed once and named in F
Bind(v, F(_)) == CHOOSE out \in {F(x) : x \in {v}} : TRUE

\* twice the signed area of the triangle o, a, b
Cross(o, a, b) == (a[1] - o[1]) * (b[2] - o[2]) - (a[2] - o[2]) * (b[1] - o[1])

\* Python round() of the fraction num/den (den > 0): nearest integer, a tie
\* going to the even neighbour.
RoundHalfEven(num, den) ==
    LET q == num \div den
        r == num % den
    IN  IF 2 * r < den THEN q
        ELSE IF 2 * r > den THEN q + 1
        ELSE IF q % 2 = 0 THEN q ELSE q + 1

\* integers of magnitude up to 2^24 are float32 values
Float32Exact == 2 ^ 24

RECURSIVE Float32Step(_)
Float32Step(v) == IF Abs(v) < Float32Exact THEN 1 ELSE 2 * Float32Step(Abs(v) \div 2)

\* np.asarray(..., dtype=np.float32) on an integer coordinate: rounded to
\* the 24-bit mantissa, ties to even.
ToFloat32(v) == LET s == Float32Step(v) IN s * RoundHalfEven(v, s)

----------------------------------------------------------------------------
(* CornerOrderer: _order_corners_tl_tr_br_bl_np *)

\* np.argsort with the default kind ('quicksort') is not a stable sort: the
\* order of equal keys is fixed by the build (introsort's insertion sort on
\* short arrays keeps input order, the SIMD sorting networks need not).
TieBreaks == {"stable", "reverse"}

\* index j comes before index i in the argsort of keys
SortsBefore(keys, tb, j, i) ==
    \/ keys[j] < keys[i]
    \/ /\ keys[j] = keys[i]
       /\ IF tb = "stable" THEN j < i ELSE j > i

\* a faulty argsort that leaves the indices in input order
ArgSortUnsorted(keys, tb) == [r \in 1..Len(keys) |-> r]

\* np.argsort(keys): the indices of keys in ascending key order
ArgSort(keys, tb) ==
    [r \in 1..Len(keys) |->
        CHOOSE i \in 1..Len(keys) :
            Cardinality({j \in 1..Len(keys) : SortsBefore(keys, tb, j, i)}) = r - 1]

\* arr[idx]: fancy indexing of the rows of arr by an index array
Take(arr, idx) == [r \in 1..Len(idx) |-> arr[idx[r]]]

\* a faulty column selection that always takes the x coordinates
ColumnFirst(arr, c) == [r \in 1..Len(arr) |-> arr[r][1]]

\* arr[:, c]: column c of the rows of arr
Column(arr, c) == [r \in 1..Len(arr) |-> arr[r][c]]

order_corners_tl_tr_br_bl_np(pts_xy, tb) ==
    Bind([r \in 1..Len(pts_xy) |->
            <<ToFloat32(pts_xy[r][1]), ToFloat32(pts_xy[r][2])>>], LAMBDA pts :
    Bind(Take(pts, ArgSort(Column(pts, 2), tb)), LAMBDA sorted_by_y :
    Bind(SubSeq(sorted_by_y, 1, 2), LAMBDA top_two :
    Bind(SubSeq(sorted_by_y, 3, 4), LAMBDA bottom_two :
    Bind(Take(top_two, ArgSort(Column(top_two, 1), tb)), LAMBDA top_sorted :
    Bind(Take(bottom_two, ArgSort(Column(bottom_two, 1), tb)), LAMBDA bottom_sorted :
        LET tl == top_sorted[1]
            tr == top_sorted[2]
            bl == bottom_sorted[1]
            br == bottom_sorted[2]
        IN  <<tl, tr, br, bl>>))))))

----------------------------------------------------------------------------
(* HomographyRectifier: _warp_by_corners *)

\* Optional[float]: <<>> is None, <<v>> is the number v
None == <<>>
Some(v) == <<v>>

\* the truth value Python gives an optional number: None and 0 are false
Truthy(o) == o # None /\ o[1] # 0

\* `o or 0.0`
OrZero(o) == IF Truthy(o) THEN o[1] ELSE 0

\* a faulty scale that is 4.0 whatever the dpi
PxPerMmIgnoringDpi(dpi) == <<4, 1>>

\* px_per_mm as the fraction <<numerator, denominator>>: dpi / 25.4, or 4.0
px_per_mm(dpi) == IF Truthy(dpi) THEN <<dpi[1] * 10, 254>> ELSE <<4, 1>>

\* int(round(mm * px_per_mm))
MmToPx(mm, ppm) == RoundHalfEven(mm * ppm[1], ppm[2])

\* cv::Size::empty()
EmptySize(W, H) == W <= 0 \/ H <= 0

Collinear(a, b, c) == Cross(a, b, c) = 0

\* some three of the four points lie on one line (two equal points included)
Degenerate(q) ==
    \E i, j, k \in 1..4 : i < j /\ j < k /\ Collinear(q[i], q[j], q[k])

\* cv2.getPerspectiveTransform(src, dst): the 8x8 linear solve.  A singular
\* system is not reported: the call returns a matrix either way.
getPerspectiveTransform(src, dst) ==
    IF Degenerate(src) \/ Degenerate(dst) THEN "singular" ELSE "regular"

\* cv2.warpPerspective(image, Hmat, (W, H)): the shape <<width, height>> of
\* the raster it returns.  An empty dsize makes it allocate the destination
\* with the size of the source image.
warpPerspective(image, Hmat, W, H) == IF EmptySize(W, H) THEN image ELSE <<W, H>>

\* cv2.resize(rect, (W, H)): raises on an empty dsize (no scale factors are
\* given), otherwise returns a W x H raster.
resize(rect, W, H) ==
    IF EmptySize(W, H)
    THEN [raised |-> TRUE, error |-> "cv2.error"]
    ELSE [raised |-> FALSE, shape |-> <<W, H>>]

\* image is the shape <<width, height>> of image_bgr
warp_by_corners(image, src_pts_xy, width_mm, height_mm, dpi, margin_mm, enforce_axes, tb) ==
    Bind(px_per_mm(dpi), LAMBDA ppm :
    Bind(MmToPx(width_mm, ppm), LAMBDA W_rect :
    Bind(MmToPx(height_mm, ppm), LAMBDA H_rect :
    Bind(MmToPx(OrZero(margin_mm), ppm), LAMBDA M :
    Bind(W_rect + 2 * M, LAMBDA W :
    Bind(H_rect + 2 * M, LAMBDA H :
    Bind(order_corners_tl_tr_br_bl_np(src_pts_xy, tb), LAMBDA src :
    Bind(<<<<M, M>>, <<M + W_rect, M>>, <<M + W_rect, M + H_rect>>, <<M, M + H_rect>>>>,
         LAMBDA dst :
    Bind(getPerspectiveTransform(src, dst), LAMBDA Hmat :
    Bind(warpPerspective(image, Hmat, W, H), LAMBDA rect :
    Bind(IF enforce_axes THEN resize(rect, W, H)
                         ELSE [raised |-> FALSE, shape |-> rect], LAMBDA out :
        IF out.raised
        THEN out
        ELSE [raised |-> FALSE, shape |-> out.shape, src |-> src, dst |-> dst,
              Hmat |-> Hmat])))))))))))

----------------------------------------------------------------------------
(* POST /rectify *)

\* an upload that PIL cannot open
NotAnImage == <<>>

\* a `points` form field that json.loads cannot parse
NotJson == <<"not json">>

\* what a try block ends in: an exception of the kind raised, or a response
HTTPException(status_code, detail) ==
    [raised |-> "HTTPException", status_code |-> status_code, detail |-> detail]
Exception(text) == [raised |-> "Exception", detail |-> text]
Returned(response) == [raised |-> "none", response |-> response]

\* faulty except clauses without `except HTTPException: raise`
ExceptClausesCatchAll(outcome) ==
    IF outcome.raised = "none"
    THEN outcome.response
    ELSE [status |-> 400, detail |-> outcome.detail]

\* `except HTTPException: raise` and `except Exception as e: raise
\* HTTPException(status_code=400, detail=str(e))`, then the response that
\* FastAPI sends for what leaves the handler
ExceptClauses(outcome) ==
    IF outcome.raised = "HTTPException"
    THEN [status |-> outcome.status_code, detail |-> outcome.detail]
    ELSE IF outcome.raised = "Exception"
    THEN [status |-> 400, detail |-> outcome.detail]
    ELSE outcome.response

\* the try block of rectify.  image: the decoded shape or NotAnImage;
\* pts_list: the parsed JSON list of points or NotJson; encodeOk: whether
\* cv2.imencode reports success.
rectify_try(image, pts_list, width_mm, height_mm, dpi, margin_mm, enforce_axes, encodeOk, tb) ==
    IF image = NotAnImage
    THEN Exception("cannot identify image file")
    ELSE IF pts_list = NotJson
    THEN Exception("Expecting value: line 1 column 1 (char 0)")
    ELSE IF Len(pts_list) # 4
    THEN HTTPException(400, "Provide exactly 4 pts_list as [{x,y}, ...].")
    ELSE Bind(warp_by_corners(image, pts_list, width_mm, height_mm, dpi,
                              Some(OrZero(margin_mm)), enforce_axes, tb), LAMBDA rect :
         IF rect.raised
         THEN Exception(rect.error)
         ELSE IF ~encodeOk
         THEN HTTPException(500, "PNG encode failed")
         ELSE Returned([status |-> 200, media_type |-> "image/png", shape |-> rect.shape,
                        src |-> rect.src, dst |-> rect.dst, Hmat |-> rect.Hmat]))

rectify(image, pts_list, width_mm, height_mm, dpi, margin_mm, enforce_axes, encodeOk, tb) ==
    ExceptClauses(rectify_try(image, pts_list, width_mm, height_mm, dpi, margin_mm,
                              enforce_axes, encodeOk, tb))

----------------------------------------------------------------------------
(* AxisAligner: _align_image_by_edge *)

\* angles are whole numbers of millionths of a degree
Unit == 1000 * 1000

Deg(n) == n * Unit

RECURSIVE Gcd(_, _)
Gcd(a, b) == IF b = 0 THEN a ELSE Gcd(b, a % b)

\* math.degrees(math.atan(num / den)) for the slopes 0 < num / den < 1 in
\* lowest terms with den <= 5, to the nearest millionth of a degree
AtanDeg(num, den) ==
    CASE <<num, den>> = <<1, 2>> -> 26565051
      [] <<num, den>> = <<1, 3>> -> 18434949
      [] <<num, den>> = <<2, 3>> -> 33690068
      [] <<num, den>> = <<1, 4>> -> 14036243
      [] <<num, den>> = <<3, 4>> -> 36869898
      [] <<num, den>> = <<1, 5>> -> 11309932
      [] <<num, den>> = <<2, 5>> -> 21801409
      [] <<num, den>> = <<3, 5>> -> 30963757
      [] <<num, den>> = <<4, 5>> -> 38659808

\* the angle of the direction (ax, ay), ax >= 0 and ay >= 0 not both 0
FirstQuadrantDeg(ax, ay) ==
    LET g == Gcd(ax, ay)
        p == ax \div g
        q == ay \div g
    IN  IF q = 0 THEN 0
        ELSE IF p = 0 THEN Deg(90)
        ELSE IF p = q THEN Deg(45)
        ELSE IF q < p THEN AtanDeg(q, p)
        ELSE Deg(90) - AtanDeg(p, q)

\* math.degrees(math.atan2(dy, dx)), in (-180, 180]; atan2(0, 0) is 0
Atan2Deg(dy, dx) ==
    IF dx = 0 /\ dy = 0 THEN 0
    ELSE LET a == FirstQuadrantDeg(Abs(dx), Abs(dy))
         IN  IF dy >= 0
             THEN IF dx >= 0 THEN a ELSE Deg(180) - a
             ELSE IF dx >= 0 THEN -a ELSE a - Deg(180)

\* a faulty edge angle that keeps the sign of atan2
EdgeAngleNotNegated(pt1, pt2) == Atan2Deg(pt2[2] - pt1[2], pt2[1] - pt1[1])

\* angle_deg: the atan2 angle of the line, negated
EdgeAngle(pt1, pt2) == -Atan2Deg(pt2[2] - pt1[2], pt2[1] - pt1[1])

\* a faulty normalisation that leaves the angle as it is
NormalizeNot(a) == a

\* ((a + 180) % 360) - 180: Python's % takes the sign of the divisor
Normalize(a) == ((a + Deg(180)) % Deg(360)) - Deg(180)

\* a faulty choice that takes the candidate of larger magnitude
SmallerAbsFlipped(first, second) == IF Abs(first) >= Abs(second) THEN first ELSE second

\* `if abs(first) <= abs(second): first else: second`
SmallerAbs(first, second) == IF Abs(first) <= Abs(second) THEN first ELSE second

\* a faulty selection that takes the first candidate without comparing
RotationAngleFirst(angle_deg, direction) ==
    IF direction = "horizontal"
    THEN Normalize(-angle_deg)
    ELSE Normalize(Deg(90) - angle_deg)

\* rotation_angle; every direction other than 'horizontal' takes the
\* vertical branch
RotationAngle(angle_deg, direction) ==
    IF direction = "horizontal"
    THEN LET rot_to_0   == Normalize(-angle_deg)
             rot_to_180 == Normalize(Deg(180) - angle_deg)
         IN  SmallerAbs(rot_to_0, rot_to_180)
    ELSE LET rot_to_90       == Normalize(Deg(90) - angle_deg)
             rot_to_minus_90 == Normalize(-Deg(90) - angle_deg)
         IN  SmallerAbs(rot_to_90, rot_to_minus_90)

\* cv2.getRotationMatrix2D(center, rotation_angle, 1.0): |M[0, 0]| and
\* |M[0, 1]| as <<p, q, s>>, meaning |cos| = p / sqrt(s), |sin| = q / sqrt(s)
getRotationMatrix2D(rotation_angle) ==
    LET a == Abs(rotation_angle) % Deg(180)
        b == IF a > Deg(90) THEN Deg(180) - a ELSE a
        d == CHOOSE pq \in ((0..5) \X (0..5)) \ {<<0, 0>>} :
                /\ Gcd(pq[1], pq[2]) = 1
                /\ FirstQuadrantDeg(pq[1], pq[2]) = b
    IN  <<d[1], d[2], d[1] * d[1] + d[2] * d[2]>>

\* int(n / sqrt(s)) for n >= 0
IntDivSqrt(n, s) ==
    CHOOSE k \in 0..n : k * k * s <= n * n /\ (k + 1) * (k + 1) * s > n * n

\* a faulty bounding box with sin and cos exchanged
BoundingSizeSwapped(w, h, M) ==
    <<IntDivSqrt(h * M[1] + w * M[2], M[3]), IntDivSqrt(h * M[2] + w * M[1], M[3])>>

\* <<new_w, new_h>> = <<int(h * sin + w * cos), int(h * cos + w * sin)>>
BoundingSize(w, h, M) ==
    <<IntDivSqrt(h * M[2] + w * M[1], M[3]), IntDivSqrt(h * M[1] + w * M[2], M[3])>>

\* image is the shape <<width, height>> of image_bgr
align_image_by_edge(image, pt1, pt2, direction) ==
    Bind(EdgeAngle(pt1, pt2), LAMBDA angle_deg :
    Bind(RotationAngle(angle_deg, direction), LAMBDA rotation_angle :
    Bind(getRotationMatrix2D(rotation_angle), LAMBDA M :
        LET w == image[1]
            h == image[2]
        IN  [shape |-> BoundingSize(w, h, M), rotation_angle |-> rotation_angle])))

----------------------------------------------------------------------------
(* POST /align *)

\* the try block of align
align_try(image, pts_list, direction, encodeOk) ==
    IF image = NotAnImage
    THEN Exception("cannot identify image file")
    ELSE IF pts_list = NotJson
    THEN Exception("Expecting value: line 1 column 1 (char 0)")
    ELSE IF Len(pts_list) # 2
    THEN HTTPException(400, "Provide exactly 2 pts_list as [{x,y}, ...].")
    ELSE IF direction \notin {"horizontal", "vertical"}
    THEN HTTPException(400, "Direction must be 'horizontal' or 'vertical'.")
    ELSE Bind(align_image_by_edge(image, pts_list[1], pts_list[2], direction), LAMBDA aligned :
         IF ~encodeOk
         THEN HTTPException(500, "PNG encode failed")
         ELSE Returned([status |-> 200, media_type |-> "image/png", shape |-> aligned.shape,
                        rotation_angle |-> aligned.rotation_angle]))

align(image, pts_list, direction, encodeOk) ==
    ExceptClauses(align_try(image, pts_list, direction, encodeOk))

----------------------------------------------------------------------------
(* The page: values and helpers of its script *)

\* `let rectifiedImageBlob = null`
NoBlob == 0

\* <input type="number" name="width_mm" value="381.0">
DefaultWidth == 381

\* the widths the user leaves or types in the width_mm input
FieldValues == {DefaultWidth, 100}

\* the blob that answers a request to /rectify: the picture rectified to
\* the posted width.  The requests of the page differ in nothing else (one
\* file, one place to click), so the width stands for the picture.
RectifiedImage(request) == request.width_mm

\* naturalWidth and naturalHeight of the pictures the page shows
PictureSize == <<4, 3>>

\* where the mouse is released, in canvas coordinates: a place inside the
\* picture and one outside it
MouseCoords == {<<1, 1>>, <<-1, 0>>}

\* a faulty mouseup condition without the test of the list length
PointPickedAnyCount(dragMoved, shiftHeld, natW, count, limit, coords) ==
    /\ ~dragMoved
    /\ shiftHeld
    /\ natW # 0
    /\ coords[1] >= 0 /\ coords[1] <= natW
    /\ coords[2] >= 0 /\ coords[2] <= PictureSize[2]

\* the two conditions of the mouseup handlers of both canvases: a
\* shift-click without a drag, on a loaded picture, with room in the list
\* and inside the picture
PointPicked(dragMoved, shiftHeld, natW, count, limit, coords) ==
    /\ ~dragMoved
    /\ shiftHeld
    /\ natW # 0
    /\ count < limit
    /\ coords[1] >= 0 /\ coords[1] <= natW
    /\ coords[2] >= 0 /\ coords[2] <= PictureSize[2]

\* Array.prototype.pop: an empty array stays empty
Pop(arr) == IF arr = <<>> THEN arr ELSE SubSeq(arr, 1, Len(arr) - 1)

\* fetch: the request joins those awaiting an answer
Sent(inFlight, request) == inFlight (+) SetToBag({request})

\* the promise of one request settles
Answered(inFlight, request) == inFlight (-) SetToBag({request})

\* updatePointsDisplay: `submitBtn.disabled = (count !== 4)`
SubmitDisabledFor(pts) == Len(pts) # 4

\* updateAlignPointsDisplay: `applyAlignBtn.disabled = (count !== 2)`
ApplyDisabledFor(pts) == Len(pts) # 2

\* alignNaturalW: 0 until alignImg.onload has run
alignNaturalW == IF alignImg = NoBlob THEN 0 ELSE PictureSize[1]

----------------------------------------------------------------------------
(* Calls *)

GridPoints == (0..GridMax) \X (0..GridMax)

\* every way of handing 4 grid points to order_corners
OrderInputs == [1..4 -> GridPoints]

Init ==
    /\ tieBreak \in TieBreaks
    /\ pc = "idle"
    /\ call = [op |-> "none"]
    /\ ret = [kind |-> "none"]
    /\ fileChosen = FALSE
    /\ widthField = DefaultWidth
    /\ imgLoading = FALSE
    /\ naturalW = 0
    /\ points = <<>>
    /\ submitBtnDisabled = TRUE
    /\ rectifyResult = "empty"
    /\ rectifiedImageBlob = NoBlob
    /\ step2Hidden = TRUE
    /\ alignImgLoading = NoBlob
    /\ alignImg = NoBlob
    /\ alignPoints = <<>>
    /\ applyAlignBtnDisabled = TRUE
    /\ rectifyInFlight = EmptyBag
    /\ alignInFlight = EmptyBag
    /\ posted = 0

\* a call of _order_corners_tl_tr_br_bl_np with 4 points in some order
OrderCorners ==
    /\ pc = "idle"
    /\ \E pts_xy \in OrderInputs :
        /\ call' = [op |-> "order_corners", pts |-> pts_xy]
        /\ ret' = [kind |-> "corners",
                   corners |-> order_corners_tl_tr_br_bl_np(pts_xy, tieBreak)]
    /\ pc' = "done"
    /\ UNCHANGED <<tieBreak, uiVars>>

LinePoints == ((0..LineMax) \X {0}) \cup {<<0, 1>>, <<1, 1>>}

\* the point lists posted to /rectify: 4 points in any order, or too few
RectifyPoints == [1..4 -> LinePoints] \cup {<<<<0, 0>>, <<1, 0>>, <<1, 1>>>>}

WidthValues == {0, 1, 100}
HeightValues == {0, 50}
DpiValues == {None, Some(0), Some(1), Some(300)}
MarginValues == {Some(0), Some(10)}
ImageValues == {<<4, 3>>, <<2, 2>>}

\* a POST to /rectify
Rectify ==
    /\ pc = "idle"
    /\ \E image \in ImageValues, pts_list \in RectifyPoints,
          width_mm \in WidthValues, height_mm \in HeightValues,
          dpi \in DpiValues, margin_mm \in MarginValues,
          enforce_axes \in BOOLEAN :
        /\ call' = [op |-> "rectify", image |-> image, points |-> pts_list,
                    width_mm |-> width_mm, height_mm |-> height_mm, dpi |-> dpi,
                    margin_mm |-> margin_mm, enforce_axes |-> enforce_axes,
                    encodeOk |-> TRUE]
        /\ ret' = rectify(image, pts_list, width_mm, height_mm, dpi, margin_mm,
                          enforce_axes, TRUE, tieBreak)
    /\ pc' = "done"
    /\ UNCHANGED <<tieBreak, uiVars>>

EdgePoints == (0..EdgeMax) \X (0..EdgeMax)

\* the edges passed to the aligner: two grid points, or the diagonal of a
\* 10 x 10 square in either sense
EdgeValues == (EdgePoints \X EdgePoints) \cup {<<<<0, 0>>, <<10, 10>>>>, <<<<10, 10>>, <<0, 0>>>>}

\* the point lists posted to /align: the 2 endpoints, or too many
AlignPoints == EdgeValues \cup {<<<<0, 0>>, <<1, 0>>, <<1, 1>>>>}

DirectionValues == {"horizontal", "vertical", "diagonal"}

\* a call of _align_image_by_edge
AlignImageByEdge ==
    /\ pc = "idle"
    /\ \E image \in ImageValues, edge \in EdgeValues, direction \in DirectionValues :
        /\ call' = [op |-> "align_image_by_edge", image |-> image, pt1 |-> edge[1],
                    pt2 |-> edge[2], direction |-> direction]
        /\ ret' = align_image_by_edge(image, edge[1], edge[2], direction)
    /\ pc' = "done"
    /\ UNCHANGED <<tieBreak, uiVars>>

\* a POST to /align
Align ==
    /\ pc = "idle"
    /\ \E image \in ImageValues, pts_list \in AlignPoints, direction \in DirectionValues :
        /\ call' = [op |-> "align", image |-> image, points |-> pts_list,
                    direction |-> direction, encodeOk |-> TRUE]
        /\ ret' = align(image, pts_list, direction, TRUE)
    /\ pc' = "done"
    /\ UNCHANGED <<tieBreak, uiVars>>

\* uploads: a decodable 2 x 2 image, or bytes that PIL cannot open
UploadValues == {<<2, 2>>, NotAnImage}

\* `points` fields of /rectify: 4 points, 3 points, or no JSON at all
RectifyFieldValues ==
    {<<<<0, 0>>, <<1, 0>>, <<1, 1>>, <<0, 1>>>>, <<<<0, 0>>, <<1, 0>>, <<1, 1>>>>, NotJson}

\* `points` fields of /align: 2 points, 3 points, or no JSON at all
AlignFieldValues ==
    {<<<<0, 0>>, <<1, 0>>>>, <<<<0, 0>>, <<1, 1>>>>, <<<<0, 0>>, <<1, 0>>, <<1, 1>>>>, NotJson}

\* a POST to /rectify in which the upload, the points field, the geometry
\* (an empty canvas with enforce_axes) or the PNG encoding may fail
PostRectify ==
    /\ pc = "idle"
    /\ \E image \in UploadValues, pts_list \in RectifyFieldValues,
          width_mm \in {0, 100}, enforce_axes \in BOOLEAN, encodeOk \in BOOLEAN :
        /\ call' = [op |-> "rectify", image |-> image, points |-> pts_list,
                    width_mm |-> width_mm, height_mm |-> 50, dpi |-> Some(300),
                    margin_mm |-> Some(0), enforce_axes |-> enforce_axes,
                    encodeOk |-> encodeOk]
        /\ ret' = rectify(image, pts_list, width_mm, 50, Some(300), Some(0),
                          enforce_axes, encodeOk, tieBreak)
    /\ pc' = "done"
    /\ UNCHANGED <<tieBreak, uiVars>>

\* a POST to /align in which the upload, the points field, the direction
\* or the PNG encoding may fail
PostAlign ==
    /\ pc = "idle"
    /\ \E image \in UploadValues, pts_list \in AlignFieldValues,
          direction \in DirectionValues, encodeOk \in BOOLEAN :
        /\ call' = [op |-> "align", image |-> image, points |-> pts_list,
                    direction |-> direction, encodeOk |-> encodeOk]
        /\ ret' = align(image, pts_list, direction, encodeOk)
    /\ pc' = "done"
    /\ UNCHANGED <<tieBreak, uiVars>>

\* the operations keep nothing between calls: the next call starts afresh
Return ==
    /\ pc = "done"
    /\ pc' = "idle"
    /\ call' = [op |-> "none"]
    /\ ret' = [kind |-> "none"]
    /\ UNCHANGED <<tieBreak, uiVars>>

----------------------------------------------------------------------------
(* The page: step 1, picking the 4 corners and posting to /rectify *)

\* fileInput 'change': the user picked a file, or emptied the selection
FileChange ==
    /\ \E chosen \in BOOLEAN :
        /\ chosen \/ fileChosen
        /\ fileChosen' = chosen
        /\ imgLoading' = (chosen \/ imgLoading)
    /\ points' = <<>>
    /\ rectifyResult' = "empty"
    /\ step2Hidden' = TRUE
    /\ UNCHANGED <<widthField, naturalW, submitBtnDisabled, rectifiedImageBlob,
                   alignImgLoading, alignImg, alignPoints, applyAlignBtnDisabled,
                   rectifyInFlight, alignInFlight, posted>>
    /\ UNCHANGED apiVars

\* the browser has fetched img.src: img.onload runs if the file is a
\* picture, and nothing runs if it is not
ImgLoaded ==
    /\ imgLoading
    /\ imgLoading' = FALSE
    /\ \E decoded \in BOOLEAN :
        IF decoded
        THEN /\ naturalW' = PictureSize[1]
             /\ submitBtnDisabled' = SubmitDisabledFor(points)
        ELSE UNCHANGED <<naturalW, submitBtnDisabled>>
    /\ UNCHANGED <<fileChosen, widthField, points, rectifyResult, rectifiedImageBlob, step2Hidden,
                   alignImgLoading, alignImg, alignPoints, applyAlignBtnDisabled,
                   rectifyInFlight, alignInFlight, posted>>
    /\ UNCHANGED apiVars

\* the user types a width into the width_mm input of the form
EditWidth ==
    /\ \E typed \in FieldValues :
        /\ typed # widthField
        /\ widthField' = typed
    /\ UNCHANGED <<fileChosen, imgLoading, naturalW, points, submitBtnDisabled,
                   rectifyResult, rectifiedImageBlob, step2Hidden, alignImgLoading,
                   alignImg, alignPoints, applyAlignBtnDisabled, rectifyInFlight, alignInFlight, posted>>
    /\ UNCHANGED apiVars

\* canvasContainer 'mouseup'
MouseUp ==
    /\ \E dragMoved \in BOOLEAN, shiftHeld \in BOOLEAN, coords \in MouseCoords :
        IF PointPicked(dragMoved, shiftHeld, naturalW, Len(points), 4, coords)
        THEN /\ points' = Append(points, coords)
             /\ submitBtnDisabled' = SubmitDisabledFor(points')
        ELSE UNCHANGED <<points, submitBtnDisabled>>
    /\ UNCHANGED <<fileChosen, widthField, imgLoading, naturalW, rectifyResult, rectifiedImageBlob,
                   step2Hidden, alignImgLoading, alignImg, alignPoints,
                   applyAlignBtnDisabled, rectifyInFlight, alignInFlight, posted>>
    /\ UNCHANGED apiVars

\* drawCanvas on a loaded picture, as run by a drag, a double click, the
\* wheel and the zoom buttons: it ends in updatePointsDisplay
Redraw ==
    /\ naturalW # 0
    /\ submitBtnDisabled' = SubmitDisabledFor(points)
    /\ UNCHANGED <<fileChosen, widthField, imgLoading, naturalW, points, rectifyResult,
                   rectifiedImageBlob, step2Hidden, alignImgLoading, alignImg,
                   alignPoints, applyAlignBtnDisabled, rectifyInFlight, alignInFlight, posted>>
    /\ UNCHANGED apiVars

\* undoBtn 'click'
Undo ==
    /\ points' = Pop(points)
    /\ submitBtnDisabled' = SubmitDisabledFor(points')
    /\ UNCHANGED <<fileChosen, widthField, imgLoading, naturalW, rectifyResult, rectifiedImageBlob,
                   step2Hidden, alignImgLoading, alignImg, alignPoints,
                   applyAlignBtnDisabled, rectifyInFlight, alignInFlight, posted>>
    /\ UNCHANGED apiVars

\* resetBtn 'click'
Reset ==
    /\ points' = <<>>
    /\ submitBtnDisabled' = SubmitDisabledFor(points')
    /\ UNCHANGED <<fileChosen, widthField, imgLoading, naturalW, rectifyResult, rectifiedImageBlob,
                   step2Hidden, alignImgLoading, alignImg, alignPoints,
                   applyAlignBtnDisabled, rectifyInFlight, alignInFlight, posted>>
    /\ UNCHANGED apiVars

\* rectifyForm 'submit', up to its `await fetch`.  The browser sends the
\* event only through an enabled submit button and with the required file.
Submit ==
    /\ ~submitBtnDisabled
    /\ fileChosen
    /\ IF Len(points) # 4
       THEN UNCHANGED <<rectifyInFlight, posted, submitBtnDisabled, rectifyResult>>
       ELSE /\ posted < MaxRequests
            /\ posted' = posted + 1
            /\ rectifyInFlight' = Sent(rectifyInFlight,
                    [route |-> "/rectify", width_mm |-> widthField, points |-> points])
            /\ submitBtnDisabled' = TRUE
            /\ rectifyResult' = "empty"
    /\ UNCHANGED <<fileChosen, widthField, imgLoading, naturalW, points, rectifiedImageBlob,
                   step2Hidden, alignImgLoading, alignImg, alignPoints,
                   applyAlignBtnDisabled,
                   alignInFlight>>
    /\ UNCHANGED apiVars

\* the rest of the submit handler: a request to /rectify is answered, or
\* fails, and the try / catch / finally runs to its end
RectifyResponse ==
    /\ \E request \in BagToSet(rectifyInFlight), ok \in BOOLEAN :
        /\ rectifyInFlight' = Answered(rectifyInFlight, request)
        /\ IF ok
           THEN /\ rectifiedImageBlob' = RectifiedImage(request)
                /\ rectifyResult' = "image"
           ELSE /\ rectifyResult' = "error"
                /\ UNCHANGED rectifiedImageBlob
    /\ submitBtnDisabled' = FALSE
    /\ UNCHANGED <<fileChosen, widthField, imgLoading, naturalW, points, step2Hidden,
                   alignImgLoading, alignImg, alignPoints, applyAlignBtnDisabled, posted,
                   alignInFlight>>
    /\ UNCHANGED apiVars

----------------------------------------------------------------------------
(* The page: step 2, picking the edge and posting to /align *)

\* startAlignBtn 'click': the button exists while rectifyResult shows an image
startAlignment ==
    /\ rectifyResult = "image"
    /\ step2Hidden' = FALSE
    /\ alignPoints' = <<>>
    /\ alignImgLoading' = rectifiedImageBlob
    /\ UNCHANGED <<fileChosen, widthField, imgLoading, naturalW, points, submitBtnDisabled,
                   rectifyResult, rectifiedImageBlob, alignImg, applyAlignBtnDisabled,
                   rectifyInFlight, alignInFlight, posted>>
    /\ UNCHANGED apiVars

\* alignImg.onload: the blob is drawn in the step-2 canvas
AlignImgLoaded ==
    /\ alignImgLoading # NoBlob
    /\ alignImg' = alignImgLoading
    /\ alignImgLoading' = NoBlob
    /\ applyAlignBtnDisabled' = ApplyDisabledFor(alignPoints)
    /\ UNCHANGED <<fileChosen, widthField, imgLoading, naturalW, points, submitBtnDisabled,
                   rectifyResult, rectifiedImageBlob, step2Hidden, alignPoints,
                   rectifyInFlight, alignInFlight, posted>>
    /\ UNCHANGED apiVars

\* alignCanvasContainer 'mouseup'.  A picked point carries, besides its
\* coordinates, the blob that the canvas showed when it was picked.
AlignMouseUp ==
    /\ ~step2Hidden
    /\ \E dragMoved \in BOOLEAN, shiftHeld \in BOOLEAN, coords \in MouseCoords :
        IF PointPicked(dragMoved, shiftHeld, alignNaturalW, Len(alignPoints), 2, coords)
        THEN /\ alignPoints' = Append(alignPoints, [coords |-> coords, shown |-> alignImg])
             /\ applyAlignBtnDisabled' = ApplyDisabledFor(alignPoints')
        ELSE UNCHANGED <<alignPoints, applyAlignBtnDisabled>>
    /\ UNCHANGED <<fileChosen, widthField, imgLoading, naturalW, points, submitBtnDisabled,
                   rectifyResult, rectifiedImageBlob, step2Hidden, alignImgLoading,
                   alignImg, rectifyInFlight, alignInFlight, posted>>
    /\ UNCHANGED apiVars

\* drawAlignCanvas on a loaded picture, as run by a drag, a double click,
\* the wheel and the zoom buttons: it ends in updateAlignPointsDisplay
AlignRedraw ==
    /\ ~step2Hidden
    /\ alignNaturalW # 0
    /\ applyAlignBtnDisabled' = ApplyDisabledFor(alignPoints)
    /\ UNCHANGED <<fileChosen, widthField, imgLoading, naturalW, points, submitBtnDisabled,
                   rectifyResult, rectifiedImageBlob, step2Hidden, alignImgLoading,
                   alignImg, alignPoints, rectifyInFlight, alignInFlight, posted>>
    /\ UNCHANGED apiVars

\* alignUndoBtn 'click'
AlignUndo ==
    /\ ~step2Hidden
    /\ alignPoints' = Pop(alignPoints)
    /\ applyAlignBtnDisabled' = ApplyDisabledFor(alignPoints')
    /\ UNCHANGED <<fileChosen, widthField, imgLoading, naturalW, points, submitBtnDisabled,
                   rectifyResult, rectifiedImageBlob, step2Hidden, alignImgLoading,
                   alignImg, rectifyInFlight, alignInFlight, posted>>
    /\ UNCHANGED apiVars

\* alignResetBtn 'click'
AlignReset ==
    /\ ~step2Hidden
    /\ alignPoints' = <<>>
    /\ applyAlignBtnDisabled' = ApplyDisabledFor(alignPoints')
    /\ UNCHANGED <<fileChosen, widthField, imgLoading, naturalW, points, submitBtnDisabled,
                   rectifyResult, rectifiedImageBlob, step2Hidden, alignImgLoading,
                   alignImg, rectifyInFlight, alignInFlight, posted>>
    /\ UNCHANGED apiVars

\* applyAlignBtn 'click', up to its `await fetch`
ApplyAlign ==
    /\ ~step2Hidden
    /\ ~applyAlignBtnDisabled
    /\ IF Len(alignPoints) # 2
       THEN UNCHANGED <<alignInFlight, applyAlignBtnDisabled>>
       ELSE /\ BagCardinality(alignInFlight) < MaxAlignInFlight
            /\ alignInFlight' = Sent(alignInFlight,
                    [route |-> "/align", image |-> rectifiedImageBlob,
                     points |-> [i \in 1..Len(alignPoints) |-> alignPoints[i].coords],
                     shown |-> [i \in 1..Len(alignPoints) |-> alignPoints[i].shown]])
            /\ applyAlignBtnDisabled' = TRUE
    /\ UNCHANGED <<fileChosen, widthField, imgLoading, naturalW, points, submitBtnDisabled,
                   rectifyResult, rectifiedImageBlob, step2Hidden, alignImgLoading,
                   alignImg, alignPoints, posted,
                   rectifyInFlight>>
    /\ UNCHANGED apiVars

\* the rest of the click handler: a request to /align is answered, or
\* fails, and the try / catch / finally runs to its end
AlignResponse ==
    /\ \E request \in BagToSet(alignInFlight) :
        alignInFlight' = Answered(alignInFlight, request)
    /\ applyAlignBtnDisabled' = FALSE
    /\ UNCHANGED <<fileChosen, widthField, imgLoading, naturalW, points, submitBtnDisabled,
                   rectifyResult, rectifiedImageBlob, step2Hidden, alignImgLoading,
                   alignImg, alignPoints, posted,
                   rectifyInFlight>>
    /\ UNCHANGED apiVars

----------------------------------------------------------------------------
(* Specifications *)

NextOrder == OrderCorners \/ Return

SpecOrder == Init /\ [][NextOrder]_vars

NextRectify == Rectify \/ Return

SpecRectify == Init /\ [][NextRectify]_vars

NextAlign == AlignImageByEdge \/ Align \/ Return

SpecAlign == Init /\ [][NextAlign]_vars

NextHttp == PostRectify \/ PostAlign \/ Return

SpecHttp == Init /\ [][NextHttp]_vars

NextUi ==
    \/ FileChange
    \/ ImgLoaded
    \/ EditWidth
    \/ MouseUp
    \/ Redraw
    \/ Undo
    \/ Reset
    \/ Submit
    \/ RectifyResponse
    \/ startAlignment
    \/ AlignImgLoaded
    \/ AlignMouseUp
    \/ AlignRedraw
    \/ AlignUndo
    \/ AlignReset
    \/ ApplyAlign
    \/ AlignResponse

SpecUi == Init /\ [][NextUi]_vars

Next ==
    \/ NextUi
    \/ OrderCorners
    \/ Rectify
    \/ AlignImageByEdge
    \/ Align
    \/ PostRectify
    \/ PostAlign
    \/ Return

Spec == Init /\ [][Next]_vars

----------------------------------------------------------------------------
(* Geometry used to state the claims about the corner orderer *)

\* q[1], q[2], q[3], q[4] are the vertices of a strictly convex quadrilateral
\* in boundary order: every turn of the closed path has the same strict sign
IsBoundaryOrder(q) ==
    LET t1 == Cross(q[1], q[2], q[3])
        t2 == Cross(q[2], q[3], q[4])
        t3 == Cross(q[3], q[4], q[1])
        t4 == Cross(q[4], q[1], q[2])
    IN  \/ t1 > 0 /\ t2 > 0 /\ t3 > 0 /\ t4 > 0
        \/ t1 < 0 /\ t2 < 0 /\ t3 < 0 /\ t4 < 0

Perms4 == {p \in [1..4 -> 1..4] : \A i, j \in 1..4 : i # j => p[i] # p[j]}

Permuted(q, p) == [i \in 1..4 |-> q[p[i]]]

StrictlyConvexPosition(q) == \E p \in Perms4 : IsBoundaryOrder(Permuted(q, p))

Min2(a, b) == IF a <= b THEN a ELSE b
Max2(a, b) == IF a >= b THEN a ELSE b

OrderReturned == pc = "done" /\ call.op = "order_corners"

----------------------------------------------------------------------------
(* Claims about the corner orderer, checked under SpecOrder *)

\* C1: permutation invariance.  For 4 points in strictly convex position,
\* every one of the 24 orderings of the same points gives the same
\* TL, TR, BR, BL as the ordering that was passed.
C1_PermutationInvariance ==
    (OrderReturned /\ StrictlyConvexPosition(call.pts)) =>
        \A p \in Perms4 :
            order_corners_tl_tr_br_bl_np(Permuted(call.pts, p), tieBreak) = ret.corners

\* C2 as claimed: for 4 points in strictly convex position the returned
\* TL, TR, BR, BL is a boundary order of the quadrilateral.
C2_BoundaryOrder ==
    (OrderReturned /\ StrictlyConvexPosition(call.pts)) =>
        IsBoundaryOrder(ret.corners)

\* both left-labelled corners lie no further right than both right-labelled
LeftOfRight(q) == Max2(q[1][1], q[4][1]) <= Min2(q[2][1], q[3][1])

\* a and b are neighbours on the boundary of the convex quadrilateral whose
\* other two vertices are c and d: c and d lie strictly on one side of ab
IsSide(a, b, c, d) == Cross(a, b, c) * Cross(a, b, d) > 0

\* C2 as amended: for 4 points in strictly convex position TL-TR and BR-BL
\* are sides of the quadrilateral, and TL, TR, BR, BL is a boundary order
\* whenever both left-labelled corners lie no further right than both
\* right-labelled corners.
C2_BoundaryOrderWhenLeftOfRight ==
    (OrderReturned /\ StrictlyConvexPosition(call.pts)) =>
        LET q == ret.corners
        IN  /\ IsSide(q[1], q[2], q[3], q[4])
            /\ IsSide(q[3], q[4], q[1], q[2])
            /\ LeftOfRight(q) => IsBoundaryOrder(q)

\* a convex quadrilateral passed diagonal-first and returned in boundary order
C2_Witness ==
    /\ OrderReturned
    /\ StrictlyConvexPosition(call.pts)
    /\ ~IsBoundaryOrder(call.pts)
    /\ LeftOfRight(ret.corners)
    /\ IsBoundaryOrder(ret.corners)


----------------------------------------------------------------------------
(* Claims about the rectifier, checked under SpecRectify *)

\* a /rectify request that got as far as _warp_by_corners
RectifyWarped == pc = "done" /\ call.op = "rectify" /\ Len(call.points) = 4

\* the dimension law, computed from the request: dpi / 25.4 = 10 dpi / 254
LawPx(mm, dpi) == RoundHalfEven(mm * dpi * 10, 254)
LawW(c) == LawPx(c.width_mm, c.dpi[1]) + 2 * LawPx(OrZero(c.margin_mm), c.dpi[1])
LawH(c) == LawPx(c.height_mm, c.dpi[1]) + 2 * LawPx(OrZero(c.margin_mm), c.dpi[1])

\* the physical parameters are those of a PhysicalSpec: width and height
\* positive, dpi absent or positive, margin absent or not negative
ValidSpec(c) ==
    /\ c.width_mm > 0
    /\ c.height_mm > 0
    /\ c.dpi = None \/ c.dpi[1] > 0
    /\ c.margin_mm = None \/ c.margin_mm[1] >= 0

\* C3: dimension law.  For a PhysicalSpec with a dpi and corners in convex
\* position, the raster rectify returns is exactly W = W_rect + 2M wide and
\* H = H_rect + 2M high, the three terms being the rounded products with
\* dpi / 25.4; 100 mm x 50 mm at 300 dpi with a 10 mm margin gives 1417 x 827.
C3_DimensionLaw ==
    (/\ RectifyWarped
     /\ ValidSpec(call)
     /\ StrictlyConvexPosition(call.points)
     /\ Truthy(call.dpi)
     /\ ret.status = 200) =>
        /\ ret.shape = <<LawW(call), LawH(call)>>
        /\ (call.width_mm = 100 /\ call.height_mm = 50 /\ call.dpi = Some(300)
                /\ call.margin_mm = Some(10)) => ret.shape = <<1417, 827>>

\* other corner lists a caller may pass with the same physical parameters:
\* the same corners in another order, or the corners of another square
OtherCorners(pts_list) ==
    {Permuted(pts_list, p) : p \in Perms4}
        \cup {<<<<0, 0>>, <<1, 0>>, <<1, 1>>, <<0, 1>>>>, <<<<1, 1>>, <<0, 0>>, <<0, 1>>, <<1, 0>>>>}

\* C4: the size of the returned raster depends only on width_mm, height_mm,
\* dpi and margin_mm.  For a PhysicalSpec and corners in convex position,
\* any other call with the same four values that returns a raster returns
\* one of the same size, whatever its corners, their order, the source image
\* and enforce_axes.
C4_SizeDependsOnlyOnSpec ==
    (/\ RectifyWarped
     /\ ValidSpec(call)
     /\ StrictlyConvexPosition(call.points)
     /\ ret.status = 200) =>
        \A image \in ImageValues, enforce_axes \in BOOLEAN :
            \A pts_list \in OtherCorners(call.points) :
                LET other == rectify(image, pts_list, call.width_mm, call.height_mm,
                                     call.dpi, call.margin_mm, enforce_axes, TRUE,
                                     tieBreak)
                IN  other.status = 200 => other.shape = ret.shape

AllCollinear(q) == \A i, j, k \in 1..4 : Collinear(q[i], q[j], q[k])

TwoCoincide(q) == \E i, j \in 1..4 : i # j /\ q[i] = q[j]

\* C9: degenerate corners are rejected.  When the 4 points passed with a
\* PhysicalSpec are collinear or two of them coincide, rectify ends in an
\* error and returns no raster.
C9_DegenerateRejected ==
    (/\ RectifyWarped
     /\ ValidSpec(call)
     /\ AllCollinear(call.points) \/ TwoCoincide(call.points)) =>
        ret.status # 200

NonPositive(o) == o # None /\ o[1] <= 0

\* C10: non-positive physical parameters are rejected.  With corners in
\* convex position and width_mm <= 0, height_mm <= 0, dpi <= 0 or
\* margin_mm <= 0, rectify ends in an error and returns no raster.
C10_NonPositiveRejected ==
    (/\ RectifyWarped
     /\ StrictlyConvexPosition(call.points)
     /\ \/ call.width_mm <= 0
        \/ call.height_mm <= 0
        \/ NonPositive(call.dpi)
        \/ NonPositive(call.margin_mm)) =>
        ret.status # 200

----------------------------------------------------------------------------
(* Claims about the aligner, checked under SpecAlign *)

\* a call that selected a rotation: _align_image_by_edge called with one of
\* the two directions, or POST /align answered with an image
AlignRotated ==
    /\ pc = "done"
    /\ \/ call.op = "align_image_by_edge" /\ call.direction \in {"horizontal", "vertical"}
       \/ call.op = "align" /\ ret.status = 200

P1 == IF call.op = "align" THEN call.points[1] ELSE call.pt1
P2 == IF call.op = "align" THEN call.points[2] ELSE call.pt2
Dx == P2[1] - P1[1]
Dy == P2[2] - P1[2]

\* the representative of a modulo 360 degrees in (-180, 180]
InHalfOpenTurn(a) ==
    LET m == a % Deg(360) IN IF m > Deg(180) THEN m - Deg(360) ELSE m

\* the two rotations that bring the edge to the target orientation
Candidates ==
    LET angle_deg == -Atan2Deg(Dy, Dx)
    IN  IF call.direction = "horizontal"
        THEN {InHalfOpenTurn(-angle_deg), InHalfOpenTurn(Deg(180) - angle_deg)}
        ELSE {InHalfOpenTurn(Deg(90) - angle_deg), InHalfOpenTurn(-Deg(90) - angle_deg)}

\* C5: minimal-rotation bound.  For every edge and both directions the
\* selected rotation is at most 90 degrees in magnitude and is one of the
\* two normalized candidates, none of which is smaller in magnitude.
C5_MinimalRotationBound ==
    AlignRotated =>
        /\ Abs(ret.rotation_angle) <= Deg(90)
        /\ ret.rotation_angle \in Candidates
        /\ \A c \in Candidates : Abs(ret.rotation_angle) <= Abs(c)

\* an edge pointing up and to the left, whose first candidate is the larger
C5_Witness ==
    /\ AlignRotated
    /\ Dx < 0 /\ Dy < 0 /\ Dx # Dy
    /\ Abs(ret.rotation_angle) < Deg(90)
    /\ \E c \in Candidates : Abs(c) > Deg(90)

DiagonalEdge == P1 = <<0, 0>> /\ P2 = <<10, 10>>

\* C6 as claimed: the edge from (0,0) to (10,10) is rotated by -45 degrees
\* for horizontal and by +45 degrees for vertical.
C6_MinimalRotationExample ==
    (AlignRotated /\ DiagonalEdge) =>
        /\ call.direction = "horizontal" => ret.rotation_angle = -Deg(45)
        /\ call.direction = "vertical" => ret.rotation_angle = Deg(45)

\* C6 as amended: the edge from (0,0) to (10,10) is rotated by +45 degrees
\* (not -135) for horizontal and by -45 degrees (not +135) for vertical.
C6_MinimalRotationExampleSigns ==
    (AlignRotated /\ DiagonalEdge) =>
        /\ call.direction = "horizontal" => ret.rotation_angle = Deg(45)
        /\ call.direction = "vertical" => ret.rotation_angle = -Deg(45)

\* POST /align of the diagonal edge with direction horizontal
C6_Witness ==
    /\ AlignRotated
    /\ call.op = "align"
    /\ DiagonalEdge
    /\ call.direction = "horizontal"
    /\ ret.rotation_angle = Deg(45)

\* C7: alignment reaches the target orientation.  For every edge with
\* distinct endpoints, angle_deg + rotation is a multiple of 180 degrees
\* for horizontal and 90 degrees more than one for vertical.
C7_ReachesTarget ==
    (AlignRotated /\ P1 # P2) =>
        LET angle_deg == -Atan2Deg(Dy, Dx)
            total     == angle_deg + ret.rotation_angle
        IN  /\ call.direction = "horizontal" => total % Deg(180) = 0
            /\ call.direction = "vertical" => total % Deg(180) = Deg(90)

\* a 3-4-5 edge made vertical by a rotation that is no multiple of 45 degrees
C7_Witness ==
    /\ AlignRotated
    /\ Dx = 3 /\ Dy = -4
    /\ call.direction = "vertical"
    /\ ret.rotation_angle % Deg(45) # 0

\* C8: alignment idempotence.  An edge with dy = 0 and dx # 0, pointing
\* right or left, aligned to horizontal is rotated by 0 degrees and the
\* returned raster has the width and height of the input.
C8_Idempotence ==
    (AlignRotated /\ Dy = 0 /\ Dx # 0 /\ call.direction = "horizontal") =>
        /\ ret.rotation_angle = 0
        /\ ret.shape = call.image

\* a horizontal edge pointing left in an image that is not square
C8_Witness ==
    /\ AlignRotated
    /\ Dy = 0 /\ Dx < 0
    /\ call.direction = "horizontal"
    /\ call.image = <<4, 3>>
    /\ ret.rotation_angle = 0
    /\ ret.shape = <<4, 3>>

\* a call of the aligner with two endpoints: _align_image_by_edge, or
\* POST /align with a list of 2 points
AlignEdgeCalled ==
    /\ pc = "done"
    /\ \/ call.op = "align_image_by_edge"
       \/ call.op = "align" /\ Len(call.points) = 2

\* the call produced a rotation: its result carries a selected angle
RotationSelected == "rotation_angle" \in DOMAIN ret

\* C11: a zero-length edge is rejected.  Called with p1 = p2 and either
\* direction, the aligner ends in an error: it selects no rotation angle
\* and returns no rotated raster.
C11_ZeroLengthRejected ==
    (/\ AlignEdgeCalled
     /\ call.direction \in {"horizontal", "vertical"}
     /\ P1 = P2) =>
        ~RotationSelected

C13_NoCropping ==
    AlignRotated =>
        LET M == getRotationMatrix2D(ret.rotation_angle)
            w == call.image[1]
            h == call.image[2]
            new_w == ret.shape[1]
            new_h == ret.shape[2]
        IN  /\ new_w * new_w * M[3] >= (h * M[2] + w * M[1]) * (h * M[2] + w * M[1])
            /\ new_h * new_h * M[3] >= (h * M[1] + w * M[2]) * (h * M[1] + w * M[2])

\* C15 as claimed: endpoint-order independence.  For distinct endpoints and
\* each direction the rotation selected for (p1, p2) is the one selected
\* for (p2, p1), an edge exactly perpendicular to the target included.
C15_EndpointOrderIndependence ==
    (AlignRotated /\ P1 # P2) =>
        align_image_by_edge(call.image, P2, P1, call.direction).rotation_angle
            = ret.rotation_angle

\* C15 as amended: the rotation selected for (p2, p1) is the one selected
\* for (p1, p2) unless the edge is exactly perpendicular to the target
\* direction; then one order is rotated by +90 and the other by -90.
C15_EndpointOrderIndependenceUnlessPerpendicular ==
    (AlignRotated /\ P1 # P2) =>
        LET swapped == align_image_by_edge(call.image, P2, P1, call.direction).rotation_angle
        IN  IF Abs(ret.rotation_angle) = Deg(90)
            THEN swapped = -ret.rotation_angle
            ELSE swapped = ret.rotation_angle

\* an edge pointing straight down the image, made horizontal by +90
\* degrees; its reverse is made horizontal by -90 degrees
C15_Witness ==
    /\ AlignRotated
    /\ Dx = 0 /\ Dy > 0
    /\ call.direction = "horizontal"
    /\ ret.rotation_angle = Deg(90)
    /\ align_image_by_edge(call.image, P2, P1, call.direction).rotation_angle = -Deg(90)

----------------------------------------------------------------------------
(* Further claims about the corner orderer, checked under SpecOrder *)

\* the labels TL, TR, BR, BL are the 4 input points, each taken once
LabelsAreInputs(q, pts) == \E p \in Perms4 : q = Permuted(pts, p)

\* C14: y-then-x labelling.  For every 4 input points the returned labels
\* are the inputs themselves with max(TL.y, TR.y) <= min(BL.y, BR.y),
\* TL.x <= TR.x and BL.x <= BR.x: TL and TR are two inputs of smallest y,
\* BL and BR two of largest y.
C14_YThenXLabeling ==
    OrderReturned =>
        LET tl == ret.corners[1]
            tr == ret.corners[2]
            br == ret.corners[3]
            bl == ret.corners[4]
        IN  /\ LabelsAreInputs(ret.corners, call.pts)
            /\ Max2(tl[2], tr[2]) <= Min2(bl[2], br[2])
            /\ tl[1] <= tr[1]
            /\ bl[1] <= br[1]

\* four distinct points passed bottom-right first, no two sharing x
\* within a pair, which the labelling has to move
C14_Witness ==
    /\ OrderReturned
    /\ call.pts = <<<<2, 2>>, <<0, 1>>, <<1, 0>>, <<0, 2>>>>
    /\ ret.corners = <<<<0, 1>>, <<1, 0>>, <<2, 2>>, <<0, 2>>>>

----------------------------------------------------------------------------
(* Further claims about the rectifier, checked under SpecRectify *)

\* the destination rectangle of a canvas with inner size W_rect x H_rect
\* and margin M
DstRectangle(W_rect, H_rect, M) ==
    <<<<M, M>>, <<M + W_rect, M>>, <<M + W_rect, M + H_rect>>, <<M, M + H_rect>>>>

\* C16: DPI fallback.  With dpi absent or 0 the canvas of _warp_by_corners
\* is round(4 width_mm) + 2 round(4 margin_mm) by round(4 height_mm) +
\* 2 round(4 margin_mm); with every other dpi it is the canvas of
\* dpi / 25.4.  The destination corners are those of that canvas, and a
\* canvas that is not empty is the size of the returned raster.
C16_DpiFallback ==
    (RectifyWarped /\ ret.status = 200) =>
        LET fallback == call.dpi = None \/ call.dpi = Some(0)
            margin == OrZero(call.margin_mm)
            W_rect == IF fallback THEN RoundHalfEven(4 * call.width_mm, 1)
                                  ELSE LawPx(call.width_mm, call.dpi[1])
            H_rect == IF fallback THEN RoundHalfEven(4 * call.height_mm, 1)
                                  ELSE LawPx(call.height_mm, call.dpi[1])
            M      == IF fallback THEN RoundHalfEven(4 * margin, 1)
                                  ELSE LawPx(margin, call.dpi[1])
            W      == W_rect + 2 * M
            H      == H_rect + 2 * M
        IN  /\ ret.dst = DstRectangle(W_rect, H_rect, M)
            /\ ~EmptySize(W, H) => ret.shape = <<W, H>>

\* 100 mm x 50 mm with a 10 mm margin and dpi = 0: a 480 x 280 canvas
C16_Witness ==
    /\ RectifyWarped
    /\ StrictlyConvexPosition(call.points)
    /\ call.dpi = Some(0)
    /\ call.width_mm = 100 /\ call.height_mm = 50 /\ call.margin_mm = Some(10)
    /\ ret.status = 200
    /\ ret.shape = <<480, 280>>

----------------------------------------------------------------------------
(* Claims about the HTTP handlers, checked under SpecHttp *)

HandlerReturned == pc = "done" /\ call.op \in {"rectify", "align"}

\* what the try block of the handler called ended in
TryOutcome ==
    IF call.op = "rectify"
    THEN rectify_try(call.image, call.points, call.width_mm, call.height_mm, call.dpi,
                     call.margin_mm, call.enforce_axes, call.encodeOk, tieBreak)
    ELSE align_try(call.image, call.points, call.direction, call.encodeOk)

\* the upload decodes and the points field parses to a list
Parsed == call.image # NotAnImage /\ call.points # NotJson

WrongPointCount == Len(call.points) # (IF call.op = "rectify" THEN 4 ELSE 2)

WrongDirection == call.op = "align" /\ call.direction \notin {"horizontal", "vertical"}

\* C17: failure never yields an image.  An HTTPException raised in the
\* handler reaches the caller with its own status and detail (400 for a
\* wrong point count or direction, 500 for a failed PNG encode), every
\* other exception becomes a 400 carrying the exception text, and the
\* answer is a 200 image exactly when no exception occurred.
C17_FailureNeverYieldsImage ==
    HandlerReturned =>
        LET outcome == TryOutcome
        IN  /\ outcome.raised = "HTTPException" =>
                /\ ret.status = outcome.status_code
                /\ ret.detail = outcome.detail
            /\ outcome.raised = "Exception" =>
                /\ ret.status = 400
                /\ ret.detail = outcome.detail
            /\ ret.status = 200 <=> outcome.raised = "none"
            /\ (Parsed /\ (WrongPointCount \/ WrongDirection)) =>
                ret.status = 400 /\ outcome.raised = "HTTPException"
            /\ ret.status = 500 <=> outcome = HTTPException(500, "PNG encode failed")
            /\ ret.status = 500 =>
                Parsed /\ ~WrongPointCount /\ ~WrongDirection /\ ~call.encodeOk

\* a /rectify request whose geometry succeeds and whose PNG encoding fails
C17_Witness ==
    /\ HandlerReturned
    /\ call.op = "rectify"
    /\ call.width_mm = 100
    /\ ~call.encodeOk
    /\ ret.status = 500
    /\ ret.detail = "PNG encode failed"

----------------------------------------------------------------------------
(* Claims about the page, checked under SpecUi *)

\* C18: point picking.  After every sequence of events the points list
\* holds at most 4 points and the alignPoints list at most 2, and every
\* request posted to /rectify carries exactly 4 points, every request
\* posted to /align exactly 2.
C18_PointLimits ==
    /\ Len(points) <= 4
    /\ Len(alignPoints) <= 2
    /\ \A request \in BagToSet(rectifyInFlight) : Len(request.points) = 4
    /\ \A request \in BagToSet(alignInFlight) : Len(request.points) = 2

\* both requests in flight, posted from full lists, the corner list having
\* lost a point to Undo since
C18_Witness ==
    /\ rectifyInFlight # EmptyBag
    /\ alignInFlight # EmptyBag
    /\ Len(points) = 3
    /\ Len(alignPoints) = 2

\* C19: single request in flight.  While a request to /rectify is awaiting
\* its answer the 'Rectify Image' button is disabled, so that no second
\* request to /rectify is in flight with it.
C19_SingleRequestInFlight ==
    /\ rectifyInFlight # EmptyBag => submitBtnDisabled
    /\ BagCardinality(rectifyInFlight) <= 1

\* C20: alignment points match the image sent.  Every request posted to
\* /align uploads the blob that the step-2 canvas showed when each of its
\* two points was picked.
C20_AlignPointsMatchImage ==
    \A request \in BagToSet(alignInFlight) :
        \A k \in 1..Len(request.shown) : request.shown[k] = request.image

====
